---- MODULE Spec2Model ----
(***************************************************************************)
(* Model of the subtitle translation pipeline of subtitle-translator:      *)
(* the SRT parser and formatter (utils/subtitle_parser.py), the translator *)
(* backends (translators/*.py, web_app_standalone.py) and their sessions.  *)
(*                                                                         *)
(* Text is modelled as a sequence of tokens.  A token is a word (a run of  *)
(* non-blank characters such as "Hello" or "00:00:01,000"), the blank " "  *)
(* or the line end "\n".  A line as returned by readlines() is the tokens  *)
(* of the line followed by its "\n".                                       *)
(***************************************************************************)
EXTENDS Integers, Sequences, FiniteSets, TLC

VARIABLES
    lines,      \* the lines of the input file (f.readlines())
    groups,     \* the text lines of the index/time/text groups a well-formed file was written from
    wellFormed, \* TRUE when lines is the rendering of groups
    i,          \* parser: loop variable i of parse_srt_blocks (1-based)
    blocks,     \* the block list: built by the parser, updated by translate_file
    output,     \* the text returned by format_srt_blocks
    ppc,        \* parser: position of the caller: "parse", "format", "done"
    kind,       \* backend: which translator class the instance is
    batch_size, \* backend: self.batch_size
    api_key,    \* backend: TRUE when an API key is configured
    session,    \* backend: self.session, 0 for None, else the id of a session
    closedSessions, \* the sessions whose .closed is True
    created,    \* number of ClientSession objects constructed so far
    released,   \* number of session.close() calls made so far
    pc,         \* translate_file: "idle", "post" (request in flight),
                \* "gather" (model calls in flight), "done"
    texts,      \* _translate_batch: the argument texts
    bi,         \* _translate_batch: loop variable i, the offset of the current chunk
    translated_texts, \* _translate_batch: the list built / returned
    log,        \* the requests of the current call, in the order issued, with their replies
    tasks,      \* Gemini: the state of each concurrent model call
    result,     \* what translate_file returned: "none" (not yet), "ok", "failed"
    files,      \* number of translate_file calls made on the instance
    closes,     \* number of close() calls made on the instance
    lastCall,   \* the last call made on the instance: "none", "translate", "close"
    used,       \* TRUE once the instance has issued a request to its server
    usedAfterClose, \* TRUE once a request was issued after a close()
    closeRaised, \* TRUE when the last close() raised
    is_running, \* TranslationWorker._is_running of the worker that drives the instance
    cancelAt,   \* number of requests issued when stop() was called during a call, -1 before
    lastReply,  \* the response that the last completed request received
    reparse,    \* the translated blocks, their formatted text and the blocks parsed from it
    response_text,  \* _parse_batch_response: the reply text of the model
    expected_count, \* _parse_batch_response: the number of texts of the batch
    translations,   \* _parse_batch_response: the list returned
    rpc,        \* _parse_batch_response: "call" or "returned"
    config,     \* the fields of the TranslationConfig object the Translator was built with
    constructed, \* the fields that object had when the caller constructed it
    engine,     \* Translator.translator: the settings the backend was created with, or "none"
    fcall,      \* Translator.translate_file: the call in progress or last made
    fresult,    \* what Translator.translate_file returned or raised
    held,       \* TRUE when the backend of the Translator holds an open session
    leaked,     \* TRUE once a backend was replaced while it held an open session
    calls       \* the translate calls that share one backend instance

pvars == <<lines, groups, wellFormed, i, blocks, output, ppc>>

bvars == <<kind, batch_size, api_key, session, closedSessions, created, released>>

cvars == <<pc, texts, bi, translated_texts, log, tasks, result, files, closes,
           lastCall, used, usedAfterClose, closeRaised>>

\* the worker of the GUI and what the caller observed of the last response
wvars == <<is_running, cancelAt, lastReply>>

\* the reply parser of the generative backend
rvars == <<response_text, expected_count, translations, rpc>>

\* the Translator facade
fvars == <<config, constructed, engine, fcall, fresult, held, leaked>>

\* concurrent calls on one backend instance
svars == <<calls>>

vars == <<pvars, bvars, cvars, wvars, reparse, rvars, fvars, svars>>

-----------------------------------------------------------------------------
(* Bounds of the model *)

MaxLines == 4
MaxGroups == 2
MaxTextLines == 2
MaxSegs == 3
MaxBatch == 2
MaxFiles == 2
MaxCloses == 2
MaxReplyLines == 2
MaxCount == 3

-----------------------------------------------------------------------------
(* Strings *)

NL == "\n"
SP == " "
ARROW == "-->"

DigitTokens == {"1", "2", "3", "4", "5", "7"}

\* str.strip() removes leading and trailing whitespace, the line end included
IsSpace(t) == t \in {SP, NL}

RECURSIVE LStrip(_)
LStrip(s) == IF s # <<>> /\ IsSpace(Head(s)) THEN LStrip(Tail(s)) ELSE s

RECURSIVE RStrip(_)
RStrip(s) ==
    IF s # <<>> /\ IsSpace(s[Len(s)]) THEN RStrip(SubSeq(s, 1, Len(s) - 1)) ELSE s

Strip(s) == RStrip(LStrip(s))

\* str.isdigit(): non-empty and every character a digit
IsDigit(s) == s # <<>> /\ \A k \in 1..Len(s) : s[k] \in DigitTokens

\* '-->' in s
HasArrow(s) == \E k \in 1..Len(s) : s[k] = ARROW

\* '\n'.join(ls)
RECURSIVE JoinNL(_)
JoinNL(ls) ==
    IF ls = <<>> THEN <<>>
    ELSE IF Len(ls) = 1 THEN ls[1]
    ELSE ls[1] \o <<NL>> \o JoinNL(Tail(ls))

-----------------------------------------------------------------------------
(* utils/subtitle_parser.py *)

\* the inner while loop: the first position at or after k that is past the
\* end or holds a blank line
RECURSIVE TextEnd(_, _)
TextEnd(ls, k) ==
    IF k <= Len(ls) /\ Strip(ls[k]) # <<>> THEN TextEnd(ls, k + 1) ELSE k

\* ParseIter with the loop variable left on a number that no time-range
\* line follows
ParseIter_StuckOnNumber(ls, k, bs) ==
    LET line == Strip(ls[k]) IN
    IF IsDigit(line)
    THEN IF k + 1 <= Len(ls) /\ HasArrow(ls[k + 1])
         THEN LET e == TextEnd(ls, k + 2)
                  text_lines == [n \in 1..(e - (k + 2)) |-> Strip(ls[k + 1 + n])]
              IN [i |-> e + 1,
                  blocks |-> Append(bs, [type |-> "subtitle",
                                         index |-> line,
                                         timestamp |-> Strip(ls[k + 1]),
                                         content |-> JoinNL(text_lines)])]
         ELSE [i |-> k,
               blocks |-> Append(bs, [type |-> "other", content |-> line])]
    ELSE IF line # <<>>
         THEN [i |-> k + 1,
               blocks |-> Append(bs, [type |-> "other", content |-> line])]
         ELSE [i |-> k + 1, blocks |-> bs]

\* ParseIter with a block's text taken from its first text line only
ParseIter_FirstTextLine(ls, k, bs) ==
    LET line == Strip(ls[k]) IN
    IF IsDigit(line)
    THEN IF k + 1 <= Len(ls) /\ HasArrow(ls[k + 1])
         THEN LET e == TextEnd(ls, k + 2)
              IN [i |-> e + 1,
                  blocks |-> Append(bs, [type |-> "subtitle",
                                         index |-> line,
                                         timestamp |-> Strip(ls[k + 1]),
                                         content |-> IF e > k + 2
                                                     THEN Strip(ls[k + 2])
                                                     ELSE <<>>])]
         ELSE [i |-> k + 2,
               blocks |-> Append(bs, [type |-> "other", content |-> line])]
    ELSE IF line # <<>>
         THEN [i |-> k + 1,
               blocks |-> Append(bs, [type |-> "other", content |-> line])]
         ELSE [i |-> k + 1, blocks |-> bs]

\* one iteration of the outer while loop of parse_srt_blocks, from position k
\* with the blocks bs built so far: the new position and block list
ParseIter(ls, k, bs) ==
    LET line == Strip(ls[k]) IN
    IF IsDigit(line)
    THEN IF k + 1 <= Len(ls) /\ HasArrow(ls[k + 1])
         THEN LET e == TextEnd(ls, k + 2)
                  text_lines == [n \in 1..(e - (k + 2)) |-> Strip(ls[k + 1 + n])]
              IN [i |-> e + 1,
                  blocks |-> Append(bs, [type |-> "subtitle",
                                         index |-> line,
                                         timestamp |-> Strip(ls[k + 1]),
                                         content |-> JoinNL(text_lines)])]
         ELSE [i |-> k + 2,
               blocks |-> Append(bs, [type |-> "other", content |-> line])]
    ELSE IF line # <<>>
         THEN [i |-> k + 1,
               blocks |-> Append(bs, [type |-> "other", content |-> line])]
         ELSE [i |-> k + 1, blocks |-> bs]

RECURSIVE ParseFrom(_, _, _)
ParseFrom(ls, k, bs) ==
    IF k <= Len(ls)
    THEN LET r == ParseIter(ls, k, bs) IN ParseFrom(ls, r.i, r.blocks)
    ELSE bs

parse_srt_blocks(ls) == ParseFrom(ls, 1, <<>>)

\* BlockLines without the separator line after a subtitle block
BlockLines_NoSeparator(b) ==
    IF b.type = "subtitle"
    THEN <<b.index, b.timestamp, b.content>>
    ELSE <<b.content>>

\* the lines format_srt_blocks emits for one block
BlockLines(b) ==
    IF b.type = "subtitle"
    THEN <<b.index, b.timestamp, b.content, <<>> >>
    ELSE <<b.content>>

RECURSIVE OutputLines(_)
OutputLines(bs) ==
    IF bs = <<>> THEN <<>> ELSE BlockLines(Head(bs)) \o OutputLines(Tail(bs))

format_srt_blocks(bs) == JoinNL(OutputLines(bs))

\* f.readlines(): the text cut after every line end
RECURSIVE ReadLines(_)
ReadLines(text) ==
    IF text = <<>> THEN <<>>
    ELSE IF \E k \in 1..Len(text) : text[k] = NL
         THEN LET k == CHOOSE k \in 1..Len(text) :
                           /\ text[k] = NL
                           /\ \A m \in 1..(k - 1) : text[m] # NL
              IN <<SubSeq(text, 1, k)>> \o ReadLines(SubSeq(text, k + 1, Len(text)))
         ELSE <<text>>

-----------------------------------------------------------------------------
(* Inputs of the parser *)

Stamps == <<"00:00:01,000", "00:00:02,000", "00:00:03,000", "00:00:04,000",
            "00:00:05,000", "00:00:06,000", "00:00:07,000", "00:00:08,000",
            "00:00:09,000", "00:00:10,000">>

Digits == <<"1", "2", "3", "4", "5">>

\* the index line and the time-range line of the k-th group of a file
IndexLine(k) == <<Digits[k]>>
TimeLine(k) == <<Stamps[2 * k - 1], SP, ARROW, SP, Stamps[2 * k]>>

\* text lines of a group: a word, a word with blanks around it, a number
TextLineSet == {<<"Hello">>, <<SP, "World", SP>>, <<"7">>}

SeqsUpTo(S, n) == UNION {[1..m -> S] : m \in 0..n}

GroupTexts == SeqsUpTo(TextLineSet, MaxTextLines) \ {<<>>}

\* the lines of a well-formed file: per group the index line, the time-range
\* line, the text lines and a blank line
RECURSIVE RenderFrom(_, _)
RenderFrom(gs, k) ==
    IF k > Len(gs) THEN <<>>
    ELSE <<IndexLine(k) \o <<NL>>, TimeLine(k) \o <<NL>>>>
         \o [n \in 1..Len(gs[k]) |-> gs[k][n] \o <<NL>>]
         \o << <<NL>> >>
         \o RenderFrom(gs, k + 1)

Render(gs) == RenderFrom(gs, 1)

\* lines of any shape
LineSet == {<<NL>>, <<"1", NL>>, <<"Hello", NL>>, <<SP, "World", SP, NL>>,
            <<"00:00:01,000", SP, ARROW, SP, "00:00:02,000", NL>>}

-----------------------------------------------------------------------------
(* The backend stub: what the server answers *)

\* the translation the stub backend gives for a text, word by word
TrWord(w) ==
    CASE w = "Hello" -> "Bonjour"
      [] w = "World" -> "Monde"
      [] w = "Thanks" -> "Merci"
      [] w = "Bye" -> "Salut"
      [] w = "Yes" -> "Oui"
      [] OTHER -> w

Translate(t) == [k \in 1..Len(t) |-> TrWord(t[k])]

TranslateAll(ts) == [k \in 1..Len(ts) |-> Translate(ts[k])]

\* the replies of the NLLB server to a request carrying batch: a status other
\* than 200, a timeout, a JSON value of another shape, a bare string, a list,
\* {"translation": string}, {"translation": list}; a list holds one entry per
\* text or lacks the first one
LocalReplies(batch) ==
    {[kind |-> "status"], [kind |-> "timeout"], [kind |-> "other"]}
    \cup {[kind |-> k, val |-> Translate(batch[1])] : k \in {"str", "dict_str"}}
    \cup {[kind |-> k, val |-> v] :
              k \in {"list", "dict_list"},
              v \in {TranslateAll(batch), Tail(TranslateAll(batch))}}

\* the replies of the Hugging Face API: a list of {"translation_text": ...},
\* one such object, or a failure
HFReplies(batch) ==
    {[kind |-> "status"], [kind |-> "timeout"], [kind |-> "other"]}
    \cup {[kind |-> "dict_str", val |-> Translate(batch[1])]}
    \cup {[kind |-> "list", val |-> v] :
              v \in {TranslateAll(batch), Tail(TranslateAll(batch))}}

-----------------------------------------------------------------------------
(* translators/local_nllb_translator.py, hf_translator.py, gemini_translator.py,
   base.py and the LocalNLLBTranslator of web_app_standalone.py *)

Kinds == {"local_nllb", "huggingface", "gemini", "web_local"}

\* the classes that hold an aiohttp session
SessionKinds == {"local_nllb", "huggingface", "web_local"}

Min(a, b) == IF a < b THEN a ELSE b

\* _get_session constructing a session on every call
GetSession_AlwaysNew(s, cl, n) == [session |-> n + 1, created |-> n + 1]

\* _get_session: the session to use and the number of sessions created
GetSession(s, cl, n) ==
    IF s = 0 \/ s \in cl
    THEN [session |-> n + 1, created |-> n + 1]
    ELSE [session |-> s, created |-> n]

\* close() without the test of self.session: closing None raises
CloseSession_NoGuard(s, cl, n) ==
    IF s # 0
    THEN [session |-> 0, closed |-> cl \cup {s}, released |-> n + 1, raised |-> FALSE]
    ELSE [session |-> s, closed |-> cl, released |-> n, raised |-> TRUE]

\* close() that forgets the session without closing it
CloseSession_Forget(s, cl, n) ==
    [session |-> 0, closed |-> cl, released |-> n, raised |-> FALSE]

\* close(): self.session, the closed sessions, the number of releases and
\* whether the call raised
CloseSession(s, cl, n) ==
    IF s # 0 /\ s \notin cl
    THEN [session |-> 0, closed |-> cl \cup {s}, released |-> n + 1, raised |-> FALSE]
    ELSE [session |-> s, closed |-> cl, released |-> n, raised |-> FALSE]

\* texts[i:i + batch_size], i counted from 0
Chunk(ts, off, b) == SubSeq(ts, off + 1, Min(off + b, Len(ts)))

\* the loop stepping one past the chunk it has just sent
NextOffset_Skip(off, b) == off + b + 1

\* the step of range(0, len(texts), batch_size)
NextOffset(off, b) == off + b

\* what one request of the class carries: LocalNLLBTranslator sends
\* texts[i:i + batch_size], HFTranslator sends texts
RequestBatch(k, ts, off, b) ==
    IF k = "huggingface" THEN ts ELSE Chunk(ts, off, b)

\* LocalEntries with the entries of a list added last first
LocalEntries_Reversed(r) ==
    IF r.kind \in {"str", "dict_str"}
    THEN <<r.val>>
    ELSE [k \in 1..Len(r.val) |-> r.val[Len(r.val) + 1 - k]]

\* the response shapes that make _translate_batch raise
LocalRaises(r) == r.kind \in {"status", "timeout", "other"}

\* the entries a response adds to translated_texts
LocalEntries(r) ==
    IF r.kind \in {"str", "dict_str"} THEN <<r.val>> ELSE r.val

\* web_app_standalone.py: a failed request adds the original texts instead
WebEntries(r, batch) ==
    IF r.kind \in {"status", "timeout", "other"} THEN batch ELSE LocalEntries(r)

HFRaises(r) == r.kind \in {"status", "timeout", "other"}

HFEntries(r) == IF r.kind = "dict_str" THEN <<r.val>> ELSE r.val

\* the positions of the subtitle blocks
RECURSIVE BlockIndicesFrom(_, _)
BlockIndicesFrom(bs, k) ==
    IF k > Len(bs) THEN <<>>
    ELSE (IF bs[k].type = "subtitle" THEN <<k>> ELSE <<>>) \o BlockIndicesFrom(bs, k + 1)

block_indices(bs) == BlockIndicesFrom(bs, 1)

text_blocks(bs) ==
    LET ix == block_indices(bs) IN [n \in 1..Len(ix) |-> bs[ix[n]].content]

\* the update writing entry k into block k, whatever the type of the block
ApplyZip_ByPosition(bs, tt) ==
    [k \in 1..Len(bs) |->
        IF k <= Len(tt) THEN [bs[k] EXCEPT !.content = tt[k]] ELSE bs[k]]

\* for idx, translated in zip(block_indices, translated_blocks):
\*     blocks[idx]['content'] = translated
ApplyZip(bs, tt) ==
    LET ix == block_indices(bs)
        m == Min(Len(ix), Len(tt))
    IN [k \in 1..Len(bs) |->
           IF \E n \in 1..m : ix[n] = k
           THEN [bs[k] EXCEPT !.content = tt[CHOOSE n \in 1..m : ix[n] = k]]
           ELSE bs[k]]

\* for i, event in enumerate(translated_subs):
\*     if i < len(translated_blocks): event.plaintext = translated_blocks[i]
ApplyEnumerate(bs, tt) ==
    [k \in 1..Len(bs) |->
        IF k <= Len(tt) THEN [bs[k] EXCEPT !.content = tt[k]] ELSE bs[k]]

\* the classes whose translate_file writes the formatted text
WritesOutput(k) == k \in {"local_nllb", "huggingface"}

\* the lists _translate_batch may hand back for the texts ts: one entry per
\* text, the first or the last entry missing, one entry too many, none
TranslatedLists(ts) ==
    LET all == TranslateAll(ts) IN
    {all, Append(all, <<"Extra">>), <<>>}
    \cup (IF ts = <<>> THEN {} ELSE {Tail(all), SubSeq(all, 1, Len(all) - 1)})

\* the tail of translate_file once _translate_batch has returned tt
ApplyBlocks(k, bs, tt) ==
    IF WritesOutput(k) THEN ApplyZip(bs, tt) ELSE ApplyEnumerate(bs, tt)

OutputOf(k, bs) == IF WritesOutput(k) THEN format_srt_blocks(bs) ELSE <<>>

\* translated_texts kept on the instance: a call sees the entries of the
\* other calls as well
Collected_Shared(cs, c, es) ==
    LET o == CHOOSE d \in DOMAIN cs : d # c
    IN cs[c].translated_texts \o cs[o].translated_texts \o es

\* translated_texts of call c once a reply gave the entries es: the list is
\* a local variable of the call
Collected(cs, c, es) == cs[c].translated_texts \o es

\* gather keeping only the replies of the calls that succeeded
GatherResults_DropFailed(ts, st) ==
    LET idx == SelectSeq([k \in 1..Len(ts) |-> k], LAMBDA k : st[k] = "ok")
    IN [j \in 1..Len(idx) |-> Translate(ts[idx[j]])]

\* asyncio.gather: the results of the model calls in the order of texts;
\* a failed call gives ""
GatherResults(ts, st) ==
    [k \in 1..Len(ts) |-> IF st[k] = "ok" THEN Translate(ts[k]) ELSE <<>>]

\* _translate_batch(texts) with texts empty: "ok" when it returns [] before
\* any request, "failed" when it raises.  GeminiTranslator tests the API key
\* first; the other classes start with "if not texts: return []".
EmptyBatch(k, key) == IF k = "gemini" /\ ~key THEN "failed" ELSE "ok"

-----------------------------------------------------------------------------
(* web_app_standalone.py, GeminiTranslator._parse_batch_response.  In a reply
   text the full stop is a token of its own. *)

DOT == "."

\* text.split('\n')
RECURSIVE SplitLines(_)
SplitLines(text) ==
    IF \E k \in 1..Len(text) : text[k] = NL
    THEN LET k == CHOOSE k \in 1..Len(text) :
                      /\ text[k] = NL
                      /\ \A m \in 1..(k - 1) : text[m] # NL
         IN <<SubSeq(text, 1, k - 1)>> \o SplitLines(SubSeq(text, k + 1, Len(text)))
    ELSE <<text>>

\* '. ' in line
HasDotSpace(l) == \E k \in 1..(Len(l) - 1) : l[k] = DOT /\ l[k + 1] = SP

\* line.split('. ', 1)[1]
AfterDotSpace(l) ==
    LET k == CHOOSE k \in 1..(Len(l) - 1) :
                 /\ l[k] = DOT /\ l[k + 1] = SP
                 /\ \A m \in 1..(k - 1) : ~(l[m] = DOT /\ l[m + 1] = SP)
    IN SubSeq(l, k + 2, Len(l))

\* the numbering test and cut of the loop body, on a stripped non-empty line
RemoveNumbering(l) ==
    IF Head(l) \in DigitTokens /\ HasDotSpace(l) THEN AfterDotSpace(l) ELSE l

\* the for loop: the list translations built from the lines
RECURSIVE ParsedLines(_)
ParsedLines(ls) ==
    IF ls = <<>> THEN <<>>
    ELSE (IF Strip(Head(ls)) = <<>> THEN <<>> ELSE <<RemoveNumbering(Strip(Head(ls)))>>)
         \o ParsedLines(Tail(ls))

\* the while loop: translations[-1], or "", appended up to n entries
PadTo(tr, n) ==
    IF Len(tr) < n
    THEN tr \o [k \in 1..(n - Len(tr)) |-> IF tr = <<>> THEN <<>> ELSE tr[Len(tr)]]
    ELSE tr

parse_batch_response(text, n) ==
    SubSeq(PadTo(ParsedLines(SplitLines(Strip(text))), n), 1, n)

\* lines of a reply of the model: empty, numbered, plain, numbered with
\* blanks around it, a sentence that starts with a number, two sentences
ReplyLineSet == {<<>>,
                 <<"1", DOT, SP, "Bonjour">>,
                 <<"Monde">>,
                 <<SP, "2", DOT, SP, "Monde", SP>>,
                 <<"3", SP, "chats", DOT, SP, "Oui">>,
                 <<"Salut", DOT, SP, "Oui">>}

ReplyTexts == {JoinNL(ls) : ls \in SeqsUpTo(ReplyLineSet, MaxReplyLines)}

-----------------------------------------------------------------------------
(* core/translator.py: TranslationConfig, Translator *)

\* the translator types TranslatorFactory knows
Registered == {"local_nllb", "huggingface"}

\* the number of lines _detect_language reads from the file
SampleLines == 100

\* 'eng_Latn', the code returned when detection fails
DefaultLang == "eng_Latn"

\* the codes of the guesser that lang_map holds (three of them)
Mapped == {"en", "fr", "nl"}

LangMap(code) ==
    CASE code = "en" -> "eng_Latn"
      [] code = "fr" -> "fra_Latn"
      [] code = "nl" -> "nld_Latn"

\* lang_map.get with no default: an unmapped code is passed on
LangMapGet_NoDefault(code) == IF code \in Mapped THEN LangMap(code) ELSE code

\* lang_map.get(lang, 'eng_Latn')
LangMapGet(code) == IF code \in Mapped THEN LangMap(code) ELSE DefaultLang

\* the try block of _detect_language on a file sm: the file cannot be opened,
\* next(f) runs out of lines before the sample is complete, detect() raises,
\* or detect() returns a code
DetectBody(sm) ==
    IF ~sm.readable \/ sm.nlines < SampleLines \/ sm.guess = "raise"
    THEN [raised |-> TRUE]
    ELSE [raised |-> FALSE, lang |-> LangMapGet(sm.guess)]

\* _detect_language: the except clause returns the default code
detect_language(sm) ==
    LET b == DetectBody(sm) IN
    IF b.raised THEN [raised |-> FALSE, lang |-> DefaultLang] ELSE b

\* the settings _initialize_translator passes to the factory
EngineOf(c) ==
    [ok |-> TRUE, kind |-> c.translator_type, batch_size |-> c.batch_size,
     source_language |-> c.source_language, target_language |-> c.target_language]

\* _initialize_translator: the new self.translator, or ConfigurationError
\* when the factory does not know the type
InitializeTranslator(c, old) ==
    IF c.translator_type \in Registered
    THEN [engine |-> EngineOf(c), raised |-> FALSE]
    ELSE [engine |-> old, raised |-> TRUE]

\* the classes whose translate_file has the required parameter output_file
RequiresOutputFile(k) == k \in {"local_nllb", "huggingface"}

\* self.translator.translate_file(input_path, source_language=...,
\* target_language=..., **kwargs) binds to the parameters of the class:
\* out tells whether the caller's kwargs hold output_file
CallMatches(k, out) == RequiresOutputFile(k) => out

\* translate_file letting the exception of the backend through
FacadeResult_Reraise(o) == IF o = "TypeError" THEN "None" ELSE o

\* what translate_file returns for an outcome of the call of the backend:
\* the value the backend returned, None when the call raised
FacadeResult(o) == IF o \in {"raises", "TypeError"} THEN "None" ELSE o

\* for key, value in kwargs.items(): if hasattr(...): setattr(...)
SetAttr(c, key, value) ==
    IF key \in DOMAIN c THEN [c EXCEPT ![key] = value] ELSE c

-----------------------------------------------------------------------------
(* Inputs of the facade *)

\* the configurations a caller constructs a Translator with
InitConfigs ==
    [translator_type : Registered, api_key : {FALSE}, batch_size : 1..MaxBatch,
     source_language : {"auto", "eng_Latn"}, target_language : {"nld_Latn"}]

\* the keyword arguments of update_config, one at a time
Updates ==
    {[key |-> "translator_type", value |-> t] : t \in Registered \cup {"gemini"}}
    \cup {[key |-> "batch_size", value |-> b] : b \in 1..MaxBatch}
    \cup {[key |-> "source_language", value |-> l] : l \in {"auto", "eng_Latn"}}
    \cup {[key |-> "colour", value |-> "red"]}

\* the files language detection may meet: unreadable, shorter than the
\* sample, or long enough with the guesser raising or returning a code
Samples ==
    {[readable |-> FALSE, nlines |-> SampleLines, guess |-> "raise"],
     [readable |-> TRUE, nlines |-> SampleLines - 1, guess |-> "raise"],
     [readable |-> TRUE, nlines |-> SampleLines - 1, guess |-> "fr"]}
    \cup {[readable |-> TRUE, nlines |-> SampleLines, guess |-> g] :
              g \in {"raise", "en", "fr", "ja"}}

\* the source_language argument of translate_file: None or a code
SourceArgs == {"none", "auto", "fra_Latn"}

-----------------------------------------------------------------------------
(* Files to translate *)

\* the words of the files: the k-th group of a file holds the k-th word as
\* its one text line, so that every segment of a file differs from the others
Words == <<"Hello", "World", "Thanks", "Bye", "Yes">>

Doc(n) == [k \in 1..n |-> << <<Words[k]>> >>]

Docs == {Doc(n) : n \in 0..MaxSegs}

-----------------------------------------------------------------------------
(* The parser run step by step, then the formatter *)

IdleBackend ==
    /\ kind = "local_nllb"
    /\ batch_size = 1
    /\ api_key = FALSE
    /\ session = 0
    /\ closedSessions = {}
    /\ created = 0
    /\ released = 0

IdleCaller ==
    /\ pc = "idle"
    /\ texts = <<>>
    /\ bi = 0
    /\ translated_texts = <<>>
    /\ log = <<>>
    /\ tasks = <<>>
    /\ result = "none"
    /\ files = 0
    /\ closes = 0
    /\ lastCall = "none"
    /\ used = FALSE
    /\ usedAfterClose = FALSE
    /\ closeRaised = FALSE

\* no worker has stopped and no response was received
IdleWorker ==
    /\ is_running = TRUE
    /\ cancelAt = -1
    /\ lastReply = [kind |-> "none"]

IdleReparse == reparse = [blocks |-> <<>>, output |-> <<>>, parsed |-> <<>>]

IdleReply ==
    /\ response_text = <<>>
    /\ expected_count = 0
    /\ translations = <<>>
    /\ rpc = "idle"

IdleFacade ==
    /\ config = [translator_type |-> "local_nllb", api_key |-> FALSE, batch_size |-> 1,
                 source_language |-> "eng_Latn", target_language |-> "nld_Latn"]
    /\ constructed = config
    /\ engine = [ok |-> FALSE]
    /\ fcall = [state |-> "idle"]
    /\ fresult = "none"
    /\ held = FALSE
    /\ leaked = FALSE

\* a call that has not started
IdleCall ==
    [pc |-> "idle", texts |-> <<>>, bi |-> 0, translated_texts |-> <<>>,
     log |-> <<>>, result |-> "none"]

\* the callers of the shared backend instance
Callers == {1, 2}

IdleShared == calls = [c \in Callers |-> IdleCall]

IdleParser ==
    /\ lines = <<>>
    /\ groups = <<>>
    /\ wellFormed = TRUE
    /\ i = 1
    /\ blocks = <<>>
    /\ output = <<>>
    /\ ppc = "done"

InitParser ==
    /\ \/ /\ groups \in SeqsUpTo(GroupTexts, MaxGroups)
          /\ lines = Render(groups)
          /\ wellFormed = TRUE
       \/ /\ lines \in SeqsUpTo(LineSet, MaxLines)
          /\ groups = <<>>
          /\ wellFormed = FALSE
    /\ i = 1
    /\ blocks = <<>>
    /\ output = <<>>
    /\ ppc = "parse"
    /\ IdleBackend
    /\ IdleCaller
    /\ IdleWorker
    /\ IdleReparse
    /\ IdleReply
    /\ IdleFacade
    /\ IdleShared

\* subtitle_parser.py:9-33, one pass of the loop body
ParseStep ==
    /\ ppc = "parse"
    /\ i <= Len(lines)
    /\ LET r == ParseIter(lines, i, blocks) IN
          /\ i' = r.i
          /\ blocks' = r.blocks
    /\ UNCHANGED <<lines, groups, wellFormed, output, ppc, bvars, cvars>>
    /\ UNCHANGED <<wvars, reparse, rvars, svars, fvars>>

\* subtitle_parser.py:9 and 35, the loop ends and the blocks are returned
ParseReturn ==
    /\ ppc = "parse"
    /\ i > Len(lines)
    /\ ppc' = "format"
    /\ UNCHANGED <<lines, groups, wellFormed, i, blocks, output, bvars, cvars>>
    /\ UNCHANGED <<wvars, reparse, rvars, svars, fvars>>

\* subtitle_parser.py:37-49
Format ==
    /\ ppc = "format"
    /\ output' = format_srt_blocks(blocks)
    /\ ppc' = "done"
    /\ UNCHANGED <<lines, groups, wellFormed, i, blocks, bvars, cvars>>
    /\ UNCHANGED <<wvars, reparse, rvars, svars, fvars>>

\* the blocks are translated by the stub backend, formatted and written
\* (local_nllb_translator.py:111-132; an empty file when no block holds
\* text), and the written file is read and parsed again
\* (local_nllb_translator.py:92-100)
Reparse ==
    /\ ppc = "done"
    /\ LET tb == ApplyZip(blocks, TranslateAll(text_blocks(blocks)))
           out == IF text_blocks(blocks) = <<>> THEN <<>> ELSE format_srt_blocks(tb)
       IN reparse' = [blocks |-> tb,
                      output |-> out,
                      parsed |-> parse_srt_blocks(ReadLines(out))]
    /\ ppc' = "reparsed"
    /\ UNCHANGED <<lines, groups, wellFormed, i, blocks, output, bvars, cvars>>
    /\ UNCHANGED <<wvars, rvars, svars, fvars>>

\* the update of the blocks once _translate_batch has returned tt, by the
\* zip loop of the SRT classes or by the enumerate loop of the base class,
\* whose document holds events only
UpdateBlocks ==
    /\ ppc = "done"
    /\ text_blocks(blocks) # <<>>
    /\ \E tt \in TranslatedLists(text_blocks(blocks)), k \in {"local_nllb", "gemini"} :
          /\ ~WritesOutput(k) => \A n \in 1..Len(blocks) : blocks[n].type = "subtitle"
          /\ reparse' = [blocks |-> ApplyBlocks(k, blocks, tt),
                         translated_blocks |-> tt,
                         kind |-> k]
    /\ ppc' = "updated"
    /\ UNCHANGED <<lines, groups, wellFormed, i, blocks, output, bvars, cvars>>
    /\ UNCHANGED <<wvars, rvars, svars, fvars>>

NextParser == ParseStep \/ ParseReturn \/ Format \/ Reparse \/ UpdateBlocks

SpecParser == InitParser /\ [][NextParser]_vars

-----------------------------------------------------------------------------
(* A backend instance and its caller: translate_file calls and close() calls,
   one after the other.  A step runs the code from one await of a network
   call to the next. *)

Init ==
    /\ lines = <<>>
    /\ groups = <<>>
    /\ wellFormed = TRUE
    /\ i = 1
    /\ blocks = <<>>
    /\ output = <<>>
    /\ ppc = "done"
    /\ kind \in Kinds
    /\ batch_size \in 1..MaxBatch
    /\ api_key \in (IF kind \in {"gemini", "huggingface"} THEN BOOLEAN ELSE {FALSE})
    /\ session = 0
    /\ closedSessions = {}
    /\ created = 0
    /\ released = 0
    /\ IdleCaller
    /\ IdleWorker
    /\ IdleReparse
    /\ IdleReply
    /\ IdleFacade
    /\ IdleShared

\* the request that _translate_batch issues at offset off: the session is
\* fetched, the request is sent and the coroutine waits for the response
Issue(ts, off, sofar, lg) ==
    LET g == GetSession(session, closedSessions, created) IN
    /\ session' = g.session
    /\ created' = g.created
    /\ log' = Append(lg, [first |-> off,
                          batch |-> RequestBatch(kind, ts, off, batch_size),
                          session |-> g.session,
                          status |-> "pending",
                          n |-> 0])
    /\ bi' = off
    /\ translated_texts' = sofar
    /\ pc' = "post"
    /\ result' = "none"
    /\ used' = TRUE
    /\ usedAfterClose' = (usedAfterClose \/ closes > 0)

\* _translate_batch returned tt: translate_file updates the blocks and returns
Return(tt, lg) ==
    /\ translated_texts' = tt
    /\ log' = lg
    /\ blocks' = ApplyBlocks(kind, blocks, tt)
    /\ output' = OutputOf(kind, blocks')
    /\ result' = "ok"
    /\ pc' = "done"

\* _translate_batch raised: translate_file logs the error and returns
\* False / None
Raise(lg) ==
    /\ log' = lg
    /\ result' = "failed"
    /\ pc' = "done"
    /\ UNCHANGED <<translated_texts, blocks, output>>

\* the log with the outcome of the request in flight: whether the response
\* was taken or made the call fail, and how many entries it added
WithReply(lg, st, es) ==
    [lg EXCEPT ![Len(lg)].status = st, ![Len(lg)].n = Len(es)]

\* translate_file is called with a file: the file is read and parsed, the
\* texts are extracted and _translate_batch runs to its first network call
TranslateFile ==
    /\ pc \in {"idle", "done"}
    /\ is_running
    /\ files < MaxFiles
    /\ lastReply' = [kind |-> "none"]
    /\ files' = files + 1
    /\ lastCall' = "translate"
    /\ \E d \in Docs :
          LET ls == Render(d)
              bs == parse_srt_blocks(ls)
              ts == text_blocks(bs)
          IN /\ groups' = d
             /\ lines' = ls
             /\ texts' = ts
             /\ IF ts = <<>>
                THEN /\ blocks' = bs
                     /\ output' = <<>>
                     /\ result' = "ok"
                     /\ pc' = "done"
                     /\ translated_texts' = <<>>
                     /\ log' = <<>>
                     /\ tasks' = <<>>
                     /\ bi' = 0
                     /\ UNCHANGED <<session, created, used, usedAfterClose>>
                ELSE IF kind = "gemini"
                THEN /\ blocks' = bs
                     /\ output' = <<>>
                     /\ translated_texts' = <<>>
                     /\ log' = <<>>
                     /\ bi' = 0
                     /\ IF api_key
                        THEN /\ tasks' = [k \in 1..Len(ts) |-> "pending"]
                             /\ pc' = "gather"
                             /\ result' = "none"
                        ELSE /\ tasks' = <<>>
                             /\ pc' = "done"
                             /\ result' = "failed"
                     /\ UNCHANGED <<session, created, used, usedAfterClose>>
                ELSE /\ blocks' = bs
                     /\ output' = <<>>
                     /\ tasks' = <<>>
                     /\ Issue(ts, 0, <<>>, <<>>)
    /\ UNCHANGED <<wellFormed, i, ppc, kind, batch_size, api_key, closedSessions,
                   released, closes, closeRaised>>
    /\ UNCHANGED <<is_running, cancelAt, reparse, rvars, svars, fvars>>

\* local_nllb_translator.py:186-216: the response to the request in flight
\* arrives; the loop goes on to the next request or the call returns
LocalResponse ==
    /\ pc = "post"
    /\ kind = "local_nllb"
    /\ \E r \in LocalReplies(log[Len(log)].batch) :
          LET tt == translated_texts \o LocalEntries(r)
              nxt == NextOffset(bi, batch_size)
              lg == WithReply(log, "ok", LocalEntries(r))
          IN /\ lastReply' = r
             /\ IF LocalRaises(r)
                THEN Raise(WithReply(log, "failed", <<>>))
                     /\ UNCHANGED <<session, created, bi, used, usedAfterClose>>
                ELSE IF nxt < Len(texts)
                     THEN Issue(texts, nxt, tt, lg) /\ UNCHANGED <<blocks, output>>
                     ELSE Return(tt, lg)
                          /\ UNCHANGED <<session, created, bi, used, usedAfterClose>>
    /\ UNCHANGED <<lines, groups, wellFormed, i, ppc, kind, batch_size, api_key,
                   closedSessions, released, texts, tasks, files, closes,
                   lastCall, closeRaised>>
    /\ UNCHANGED <<is_running, cancelAt, reparse, rvars, svars, fvars>>

\* web_app_standalone.py:141-192: as above, but a failed request adds the
\* texts of the chunk untranslated and the loop goes on
WebResponse ==
    /\ pc = "post"
    /\ kind = "web_local"
    /\ \E r \in LocalReplies(log[Len(log)].batch) :
          LET es == WebEntries(r, log[Len(log)].batch)
              lg == WithReply(log, IF LocalRaises(r) THEN "failed" ELSE "ok", es)
              tt == translated_texts \o es
              nxt == NextOffset(bi, batch_size)
          IN /\ lastReply' = r
             /\ IF nxt < Len(texts)
                THEN Issue(texts, nxt, tt, lg) /\ UNCHANGED <<blocks, output>>
                ELSE Return(tt, lg)
                     /\ UNCHANGED <<session, created, bi, used, usedAfterClose>>
    /\ UNCHANGED <<lines, groups, wellFormed, i, ppc, kind, batch_size, api_key,
                   closedSessions, released, texts, tasks, files, closes,
                   lastCall, closeRaised>>
    /\ UNCHANGED <<is_running, cancelAt, reparse, rvars, svars, fvars>>

\* hf_translator.py:174-197: the response to the one request arrives
HFResponse ==
    /\ pc = "post"
    /\ kind = "huggingface"
    /\ \E r \in HFReplies(log[Len(log)].batch) :
          /\ lastReply' = r
          /\ IF HFRaises(r)
             THEN Raise(WithReply(log, "failed", <<>>))
             ELSE Return(HFEntries(r), WithReply(log, "ok", HFEntries(r)))
    /\ UNCHANGED <<lines, groups, wellFormed, i, ppc, bvars, texts, bi, tasks,
                   files, closes, lastCall, used, usedAfterClose, closeRaised>>
    /\ UNCHANGED <<is_running, cancelAt, reparse, rvars, svars, fvars>>

\* gemini_translator.py:103-139: one of the concurrent model calls completes,
\* with a reply or with an exception; when it was the last one, gather
\* returns and translate_file updates the events
GeminiReply ==
    /\ pc = "gather"
    /\ \E k \in 1..Len(tasks), st \in {"ok", "failed"} :
          /\ tasks[k] = "pending"
          /\ tasks' = [tasks EXCEPT ![k] = st]
          /\ IF \A n \in 1..Len(tasks) : tasks'[n] # "pending"
             THEN Return(GatherResults(texts, tasks'), log)
             ELSE UNCHANGED <<translated_texts, log, blocks, output, result, pc>>
    /\ UNCHANGED <<lines, groups, wellFormed, i, ppc, bvars, texts, bi, files,
                   closes, lastCall, used, usedAfterClose, closeRaised>>
    /\ UNCHANGED <<wvars, reparse, rvars, svars, fvars>>

\* close() of the instance (through Translator.close), between two calls
Close ==
    /\ pc \in {"idle", "done"}
    /\ closes < MaxCloses
    /\ closes' = closes + 1
    /\ lastCall' = "close"
    /\ IF kind \in SessionKinds
       THEN LET c == CloseSession(session, closedSessions, released) IN
            /\ session' = c.session
            /\ closedSessions' = c.closed
            /\ released' = c.released
            /\ closeRaised' = c.raised
       ELSE /\ closeRaised' = FALSE
            /\ UNCHANGED <<session, closedSessions, released>>
    /\ UNCHANGED <<pvars, kind, batch_size, api_key, created, pc, texts, bi,
                   translated_texts, log, tasks, result, files, used, usedAfterClose>>
    /\ UNCHANGED <<wvars, reparse, rvars, svars, fvars>>

\* _translate_batch([]) called on the instance, no file involved
TranslateBatch ==
    /\ pc \in {"idle", "done"}
    /\ files < MaxFiles
    /\ files' = files + 1
    /\ lastCall' = "batch"
    /\ lines' = <<>>
    /\ groups' = <<>>
    /\ blocks' = <<>>
    /\ output' = <<>>
    /\ texts' = <<>>
    /\ translated_texts' = <<>>
    /\ log' = <<>>
    /\ tasks' = <<>>
    /\ bi' = 0
    /\ result' = EmptyBatch(kind, api_key)
    /\ pc' = "done"
    /\ lastReply' = [kind |-> "none"]
    /\ UNCHANGED <<wellFormed, i, ppc, bvars, closes, used, usedAfterClose, closeRaised>>
    /\ UNCHANGED <<is_running, cancelAt, reparse, rvars, svars, fvars>>

\* gui/main.py:146-153, TranslationWorker.stop() called from the GUI thread
\* (cancel_translation, main.py:856-869) at any moment, also while a request
\* of run_translation is in flight: the flag is cleared and the translator
\* is closed.  A translate_file call that is running stays the last call:
\* it goes on using the instance.
Stop ==
    /\ is_running
    /\ closes < MaxCloses
    /\ is_running' = FALSE
    /\ cancelAt' = IF pc \in {"post", "gather"} THEN Len(log) ELSE cancelAt
    /\ closes' = closes + 1
    /\ lastCall' = IF pc \in {"post", "gather"} THEN lastCall ELSE "close"
    /\ IF kind \in SessionKinds
       THEN LET c == CloseSession(session, closedSessions, released) IN
            /\ session' = c.session
            /\ closedSessions' = c.closed
            /\ released' = c.released
            /\ closeRaised' = c.raised
       ELSE /\ closeRaised' = FALSE
            /\ UNCHANGED <<session, closedSessions, released>>
    /\ UNCHANGED <<pvars, kind, batch_size, api_key, created, pc, texts, bi,
                   translated_texts, log, tasks, result, files, used, usedAfterClose>>
    /\ UNCHANGED <<lastReply, reparse, rvars, svars, fvars>>

Next ==
    \/ TranslateFile
    \/ LocalResponse
    \/ WebResponse
    \/ HFResponse
    \/ GeminiReply
    \/ TranslateBatch
    \/ Close
    \/ Stop

Spec == Init /\ [][Next]_vars

-----------------------------------------------------------------------------
(* The reply parser called with a reply text and a count *)

InitReply ==
    /\ response_text \in ReplyTexts
    /\ expected_count \in 0..MaxCount
    /\ translations = <<>>
    /\ rpc = "call"
    /\ IdleParser
    /\ IdleBackend
    /\ IdleCaller
    /\ IdleWorker
    /\ IdleReparse
    /\ IdleFacade
    /\ IdleShared

\* web_app_standalone.py:398-424
ParseBatchResponse ==
    /\ rpc = "call"
    /\ translations' = parse_batch_response(response_text, expected_count)
    /\ rpc' = "returned"
    /\ UNCHANGED <<response_text, expected_count>>
    /\ UNCHANGED <<pvars, bvars, cvars, wvars, reparse, fvars, svars>>

NextReply == ParseBatchResponse

SpecReply == InitReply /\ [][NextReply]_vars

-----------------------------------------------------------------------------
(* A Translator built with a TranslationConfig that its caller keeps *)

InitFacade ==
    /\ config \in InitConfigs
    /\ constructed = config
    /\ engine = EngineOf(config)
    /\ fcall = [state |-> "idle"]
    /\ fresult = "none"
    /\ held = FALSE
    /\ leaked = FALSE
    /\ IdleParser
    /\ IdleBackend
    /\ IdleCaller
    /\ IdleWorker
    /\ IdleReparse
    /\ IdleReply
    /\ IdleShared

\* core/translator.py:215-221: the new backend takes the place of the old
\* one, which is not closed
UpdateConfig ==
    /\ \E u \in Updates :
          /\ config' = SetAttr(config, u.key, u.value)
          /\ LET r == InitializeTranslator(config', engine) IN
                /\ engine' = r.engine
                /\ fresult' = IF r.raised THEN "ConfigurationError" ELSE "updated"
                /\ IF r.raised
                   THEN UNCHANGED <<held, leaked, fcall>>
                   ELSE /\ leaked' = (leaked \/ held)
                        /\ held' = FALSE
                        /\ fcall' = IF fcall.state = "backend"
                                    THEN [fcall EXCEPT !.stale = TRUE]
                                    ELSE fcall
    /\ UNCHANGED constructed
    /\ UNCHANGED <<pvars, bvars, cvars, wvars, reparse, rvars, svars>>

\* core/translator.py:183-210: translate_file up to the call of the backend;
\* a call that does not bind to the parameters of the backend raises
\* TypeError inside the try block at once
FacadeTranslateFile ==
    /\ fcall.state # "backend"
    /\ \/ /\ fcall' = [state |-> "raised", exists |-> FALSE, source |-> "none"]
          /\ fresult' = "FileNotFoundError"
       \/ \E src \in SourceArgs, out \in BOOLEAN :
             LET s0 == IF src = "none" THEN config.source_language ELSE src IN
             \E sm \in IF s0 = "auto" THEN Samples ELSE {[readable |-> TRUE]} :
                LET d == IF s0 = "auto"
                         THEN detect_language(sm)
                         ELSE [raised |-> FALSE, lang |-> s0]
                    call == [state |-> "backend", exists |-> TRUE, source |-> s0,
                             sample |-> sm, src_lang |-> d.lang,
                             output_file |-> out, outcome |-> "pending",
                             value |-> "none", stale |-> FALSE]
                IN IF d.raised
                   THEN /\ fcall' = [state |-> "raised", exists |-> TRUE, source |-> s0]
                        /\ fresult' = "Exception"
                   ELSE IF ~CallMatches(engine.kind, out)
                   THEN /\ fcall' = [call EXCEPT !.state = "returned",
                                                 !.outcome = "TypeError",
                                                 !.value = FacadeResult("TypeError")]
                        /\ fresult' = FacadeResult("TypeError")
                   ELSE /\ fcall' = call
                        /\ fresult' = "none"
    /\ UNCHANGED <<config, constructed, engine, held, leaked>>
    /\ UNCHANGED <<pvars, bvars, cvars, wvars, reparse, rvars, svars>>

\* core/translator.py:204-213: the translate_file of the backend returns
\* True (every request answered, the output written) or False (the file
\* could not be read or a request failed), or raises; it has sent a request,
\* and so holds a session, or has not
BackendReturns ==
    /\ fcall.state = "backend"
    /\ \E o \in {"True", "False", "raises"}, issued \in BOOLEAN :
          /\ fcall' = [fcall EXCEPT !.state = "returned", !.outcome = o,
                                    !.value = FacadeResult(o)]
          /\ fresult' = FacadeResult(o)
          /\ held' = (held \/ (issued /\ ~fcall.stale))
          /\ leaked' = (leaked \/ (issued /\ fcall.stale))
    /\ UNCHANGED <<config, constructed, engine>>
    /\ UNCHANGED <<pvars, bvars, cvars, wvars, reparse, rvars, svars>>

\* core/translator.py:223-229: close() of the Translator closes its backend
FacadeClose ==
    /\ fcall.state # "backend"
    /\ held' = FALSE
    /\ fresult' = "closed"
    /\ UNCHANGED <<config, constructed, engine, fcall, leaked>>
    /\ UNCHANGED <<pvars, bvars, cvars, wvars, reparse, rvars, svars>>

NextFacade == UpdateConfig \/ FacadeTranslateFile \/ BackendReturns \/ FacadeClose

SpecFacade == InitFacade /\ [][NextFacade]_vars

-----------------------------------------------------------------------------
(* Two _translate_batch calls that share one LocalNLLBTranslator and
   interleave where a call awaits the server *)

\* the marks that tell the texts of the callers apart
Tag == <<"A", "B">>

\* the n texts of caller c
SharedTexts(c, n) == [k \in 1..n |-> <<Words[k], Tag[c]>>]

\* the request of call c for the chunk at off, sent on session sn while the
\* other call was, or was not, waiting for a reply
SharedRequest(c, ts, off, sn) ==
    [batch |-> RequestBatch("local_nllb", ts, off, batch_size),
     session |-> sn,
     status |-> "pending",
     n |-> 0,
     overlap |-> \E o \in Callers \ {c} : calls[o].pc = "post"]

InitShared ==
    /\ kind = "local_nllb"
    /\ batch_size \in 1..MaxBatch
    /\ api_key = FALSE
    /\ session = 0
    /\ closedSessions = {}
    /\ created = 0
    /\ released = 0
    /\ IdleShared
    /\ IdleParser
    /\ IdleCaller
    /\ IdleWorker
    /\ IdleReparse
    /\ IdleReply
    /\ IdleFacade

\* local_nllb_translator.py:161-186: _translate_batch up to the first post
SharedStart(c) ==
    /\ calls[c].pc = "idle"
    /\ \E n \in 1..MaxSegs :
          LET ts == SharedTexts(c, n)
              g == GetSession(session, closedSessions, created)
          IN /\ session' = g.session
             /\ created' = g.created
             /\ calls' = [calls EXCEPT ![c] =
                             [pc |-> "post", texts |-> ts, bi |-> 0,
                              translated_texts |-> <<>>,
                              log |-> <<SharedRequest(c, ts, 0, g.session)>>,
                              result |-> "none"]]
    /\ UNCHANGED <<kind, batch_size, api_key, closedSessions, released>>
    /\ UNCHANGED <<pvars, cvars, wvars, reparse, rvars, fvars>>

\* local_nllb_translator.py:182-216: the reply to the request of call c, then
\* the next request of the call or its return
SharedResponse(c) ==
    /\ calls[c].pc = "post"
    /\ LET cl == calls[c] IN
       \E r \in LocalReplies(cl.log[Len(cl.log)].batch) :
          LET tt == Collected(calls, c, LocalEntries(r))
              nxt == NextOffset(cl.bi, batch_size)
              lg == WithReply(cl.log, "ok", LocalEntries(r))
              g == GetSession(session, closedSessions, created)
          IN IF LocalRaises(r)
             THEN /\ calls' = [calls EXCEPT ![c] =
                                  [cl EXCEPT !.pc = "done", !.result = "failed",
                                             !.log = WithReply(cl.log, "failed", <<>>)]]
                  /\ UNCHANGED <<session, created>>
             ELSE IF nxt < Len(cl.texts)
             THEN /\ session' = g.session
                  /\ created' = g.created
                  /\ calls' = [calls EXCEPT ![c] =
                                  [cl EXCEPT !.bi = nxt, !.translated_texts = tt,
                                             !.log = Append(lg, SharedRequest(c, cl.texts, nxt, g.session))]]
             ELSE /\ calls' = [calls EXCEPT ![c] =
                                  [cl EXCEPT !.pc = "done", !.result = "ok",
                                             !.translated_texts = tt, !.log = lg]]
                  /\ UNCHANGED <<session, created>>
    /\ UNCHANGED <<kind, batch_size, api_key, closedSessions, released>>
    /\ UNCHANGED <<pvars, cvars, wvars, reparse, rvars, fvars>>

NextShared == \E c \in Callers : SharedStart(c) \/ SharedResponse(c)

SpecShared == InitShared /\ [][NextShared]_vars

-----------------------------------------------------------------------------
(* Properties of the parser and the formatter (SpecParser) *)

\* the concatenation of a list of lines
RECURSIVE Concat(_)
Concat(ls) == IF ls = <<>> THEN <<>> ELSE Head(ls) \o Concat(Tail(ls))

\* the lines of a well-formed file, each with leading and trailing blanks
\* and its line end removed
StrippedLines(ls) == [k \in 1..Len(ls) |-> Strip(ls[k])]

\* the lines of a well-formed file without their line ends only
RECURSIVE Chomp(_)
Chomp(l) == IF l # <<>> /\ l[Len(l)] = NL THEN SubSeq(l, 1, Len(l) - 1) ELSE l

ChompedLines(ls) == [k \in 1..Len(ls) |-> Chomp(ls[k])]

IsPadded(l) == l # <<>> /\ (Head(l) = SP \/ l[Len(l)] = SP)

\* C5 as stated: for well-formed input x (groups of index line, time-range
\* line, text lines, blank line) format(parse(x)) holds the same blocks in the
\* same order, every index, time-range line and text line equal to the one
\* of x: the output, line by line, is x without the end of its last line.
C5_RoundTripExact ==
    (ppc = "done" /\ wellFormed)
        => output = JoinNL(ChompedLines(lines))

\* C5 amended: format(parse(x)) holds the same blocks in the same order,
\* every index, time-range line and text line equal to the one of x with
\* its leading and trailing whitespace removed.
C5_RoundTripStripped ==
    (ppc = "done" /\ wellFormed)
        => /\ output = JoinNL(StrippedLines(lines))
           /\ Len(blocks) = Len(groups)
           /\ \A k \in 1..Len(blocks) :
                 /\ blocks[k].type = "subtitle"
                 /\ blocks[k].index = IndexLine(k)
                 /\ blocks[k].timestamp = TimeLine(k)
                 /\ blocks[k].content = JoinNL(StrippedLines(groups[k]))

\* two blocks, one of them with two text lines, one text line with blanks
\* around it, parsed and formatted
C5_Witness ==
    /\ ppc = "done"
    /\ wellFormed
    /\ Len(groups) = 2
    /\ Len(blocks) = 2
    /\ Len(groups[1]) = 2
    /\ \E n \in 1..Len(groups[2]) : IsPadded(groups[2][n])
    /\ output # <<>>

\* the lines a block list accounts for, in order: per subtitle block its
\* index, its time-range line and its text lines, per other block its line
RECURSIVE KeptLines(_)
KeptLines(bs) ==
    IF bs = <<>> THEN <<>>
    ELSE (IF Head(bs).type = "subtitle"
          THEN <<Head(bs).index, Head(bs).timestamp>>
               \o StrippedLines(ReadLines(Head(bs).content))
          ELSE <<Head(bs).content>>)
         \o KeptLines(Tail(bs))

NonBlank(l) == l # <<>>

\* C6: parse loses no line: every non-blank line of the input is the index,
\* time-range or text line of a subtitle block or becomes one block of type
\* other, in input order; also the line after a digit-only line that no
\* time-range line follows.
C6_NoLineLost ==
    ppc # "parse" => KeptLines(blocks) = SelectSeq(StrippedLines(lines), NonBlank)

\* the structure of a block list: per block its type and, for a subtitle
\* block, its index and its timestamp
Structure(bs) ==
    [k \in 1..Len(bs) |->
        IF bs[k].type = "subtitle"
        THEN [type |-> "subtitle", index |-> bs[k].index, timestamp |-> bs[k].timestamp]
        ELSE [type |-> "other"]]

\* C18: re-parsing the formatted output of a translated document gives the
\* same number of blocks, of the same types, with the same indices and
\* timestamps as the first parse.
C18_ReparseSameStructure ==
    ppc = "reparsed" => Structure(reparse.parsed) = Structure(reparse.blocks)

\* C27: the translated document always has the same number of blocks, in
\* the same order and with the same indices and timestamps, as the
\* original, whatever the backend returns: a result list shorter or longer
\* than the segment list never adds, removes or reorders a block, and only
\* the text of Timed blocks can differ.
C27_StructureKept ==
    ppc = "updated"
        => /\ Len(reparse.blocks) = Len(blocks)
           /\ Structure(reparse.blocks) = Structure(blocks)
           /\ \A n \in 1..Len(blocks) :
                 blocks[n].type = "other" => reparse.blocks[n] = blocks[n]

\* a document with a block that is not Timed before a Timed one, updated
\* from a result list that is longer than the segment list
C27_Witness ==
    /\ ppc = "updated"
    /\ Len(blocks) >= 2
    /\ blocks[1].type = "other"
    /\ blocks[2].type = "subtitle"
    /\ Len(reparse.translated_blocks) > Len(text_blocks(blocks))
    /\ reparse.blocks[2].content = reparse.translated_blocks[1]

\* a document updated from a result list shorter than the segment list
C27_WitnessShort ==
    /\ ppc = "updated"
    /\ Len(text_blocks(blocks)) >= 2
    /\ Len(reparse.translated_blocks) < Len(text_blocks(blocks))

\* C19: parse terminates and returns a block list without raising for every
\* finite sequence of lines: every pass of the loop moves i forward, by at
\* most one position past the end of the list, and once i is past the end
\* the blocks are returned as they are.
C19_ParseTerminates ==
    [][ppc = "parse"
          => \/ /\ ppc' = "parse"
                /\ i <= Len(lines)
                /\ i' > i
                /\ i' <= Len(lines) + 2
                /\ Len(blocks') \in {Len(blocks), Len(blocks) + 1}
             \/ /\ ppc' = "format"
                /\ i > Len(lines)
                /\ blocks' = blocks]_vars

\* an input that ends with a time-range line and no text, parsed to its end
C19_Witness ==
    /\ ppc = "format"
    /\ Len(lines) = 2
    /\ IsDigit(Strip(lines[1]))
    /\ HasArrow(lines[2])
    /\ i = Len(lines) + 2
    /\ Len(blocks) = 1
    /\ blocks[1].type = "subtitle"
    /\ blocks[1].content = <<>>

-----------------------------------------------------------------------------
(* Properties of the backends (Spec) *)

\* every request of the current call was answered with one entry per text
AllAnswered ==
    \A k \in 1..Len(log) :
        log[k].status = "ok" /\ log[k].n = Len(log[k].batch)

\* ceil(n / b)
CeilDiv(n, b) == (n + b - 1) \div b

NumChunks == CeilDiv(Len(texts), batch_size)

\* the number of the chunk that holds segment s (both counted from 1)
ChunkOf(s) == ((s - 1) \div batch_size) + 1

\* the blocks of the file as parsed, before any text was replaced
OriginalBlocks == parse_srt_blocks(lines)

\* C1: when the backend answers each request of k texts with k outputs, the
\* batch translation returns exactly len(S) entries and entry i is the
\* backend's translation of S[i], also when S spans several chunks.
C1_BatchAligned ==
    (pc = "done" /\ kind \in SessionKinds /\ AllAnswered)
        => /\ result = "ok"
           /\ Len(translated_texts) = Len(texts)
           /\ \A k \in 1..Len(texts) : translated_texts[k] = Translate(texts[k])

\* three segments sent in three chunks, every one answered
C1_Witness ==
    /\ pc = "done"
    /\ kind = "local_nllb"
    /\ batch_size = 1
    /\ Len(texts) = 3
    /\ Len(log) = 3
    /\ AllAnswered
    /\ translated_texts = TranslateAll(texts)

\* C2: a response with fewer entries than the chunk has segments makes the
\* chunk fail, and no block ever holds the translation of another block's
\* text: a block's text is its original text or the translation of it.
C2_ShortReplyRejected ==
    pc = "done"
        => /\ \A k \in 1..Len(log) :
                 log[k].n < Len(log[k].batch) => log[k].status = "failed"
           /\ \A k \in 1..Len(blocks) :
                 blocks[k].content \in {OriginalBlocks[k].content,
                                        Translate(OriginalBlocks[k].content)}

\* C3: with more than one chunk and a backend that fails on one chunk only,
\* every chunk is still sent, the call does not fail as a whole and every
\* segment outside the failed chunk ends with its translation.
C3_FailureIsolated ==
    (/\ pc = "done"
     /\ kind \in {"local_nllb", "web_local"}
     /\ NumChunks > 1
     /\ \E f \in 1..Len(log) :
           /\ log[f].status = "failed"
           /\ \A k \in 1..Len(log) :
                 k # f => log[k].status = "ok" /\ log[k].n = Len(log[k].batch))
        => /\ Len(log) = NumChunks
           /\ result = "ok"
           /\ \A s \in 1..Len(texts) :
                 log[ChunkOf(s)].status = "ok"
                     => blocks[s].content = Translate(texts[s])

\* the segment of block s was not translated: its model call raised or the
\* request of its chunk failed
SegmentFailed(s) ==
    IF kind = "gemini"
    THEN Len(tasks) >= s /\ tasks[s] = "failed"
    ELSE ChunkOf(s) <= Len(log) /\ log[ChunkOf(s)].status = "failed"

\* C4: after translating a file every block whose segment failed keeps its
\* original text, and no block's text is replaced by the empty string.
C4_FailedKeepsOriginal ==
    pc = "done"
        => \A s \in 1..Len(blocks) :
              /\ SegmentFailed(s) => blocks[s].content = OriginalBlocks[s].content
              /\ blocks[s].content # <<>>

\* the file of the scenario: Hello and World in two blocks
ScenarioGroups == << << <<"Hello">> >>, << <<"World">> >> >>

\* "1\n00:00:01,000 --> 00:00:02,000\nBonjour\n\n2\n00:00:03,000 --> 00:00:04,000\nMonde\n"
ScenarioText ==
    <<"1", NL, "00:00:01,000", SP, ARROW, SP, "00:00:02,000", NL, "Bonjour", NL, NL,
      "2", NL, "00:00:03,000", SP, ARROW, SP, "00:00:04,000", NL, "Monde", NL>>

\* the groups with every text line translated
TranslatedGroups == [k \in 1..Len(groups) |-> TranslateAll(groups[k])]

\* a call of a class that writes the formatted text, every request answered
Translated ==
    /\ pc = "done"
    /\ WritesOutput(kind)
    /\ result = "ok"
    /\ texts # <<>>
    /\ AllAnswered

\* C7 as stated: the output is, per block, the index line, the time-range
\* line, the translated text and one blank line, each ended by a line end:
\* the scenario gives the input text with Hello replaced by Bonjour and
\* World by Monde, ending in "Monde\n\n".
C7_OutputEndsWithBlankLine ==
    Translated
        => /\ output = Concat(Render(TranslatedGroups))
           /\ (groups = ScenarioGroups /\ batch_size = 2)
                 => output = ScenarioText \o <<NL>>

\* C7 amended: the output is those lines joined by line ends, so the empty
\* line after the last block is not ended by a line end of its own: the
\* scenario gives "...\nMonde\n".
C7_OutputJoined ==
    Translated
        => /\ output \o <<NL>> = Concat(Render(TranslatedGroups))
           /\ (groups = ScenarioGroups /\ batch_size = 2) => output = ScenarioText

\* the scenario, translated by the Hugging Face class
C7_Witness ==
    /\ Translated
    /\ kind = "huggingface"
    /\ groups = ScenarioGroups
    /\ batch_size = 2
    /\ output = ScenarioText

\* C8: for n segments and batch size b the local and the hosted backend
\* issue exactly ceil(n/b) requests one after the other: request j carries
\* the segments j*b .. min((j+1)*b, n)-1, never more than b, and is issued
\* only when the request before it has completed.
C8_ChunkedRequests ==
    kind \in {"local_nllb", "huggingface"}
        => /\ \A j \in 1..Len(log) :
                 /\ log[j].batch = Chunk(texts, (j - 1) * batch_size, batch_size)
                 /\ Len(log[j].batch) <= batch_size
                 /\ j < Len(log) => log[j].status # "pending"
           /\ (pc = "done" /\ result = "ok") => Len(log) = NumChunks

\* C9: the session does not exist before the first request, is created by
\* the first request, is the session of every later request, and is
\* released exactly once by close(): translate calls followed by close()
\* create one session and release it once.
C9_SessionLifecycle ==
    kind \in SessionKinds
        => /\ ~used => (session = 0 /\ created = 0 /\ released = 0)
           /\ (used /\ ~usedAfterClose)
                 => /\ created = 1
                    /\ \A j \in 1..Len(log) : log[j].session = 1
           /\ (used /\ closes = 0)
                 => (session = 1 /\ released = 0 /\ closedSessions = {})
           /\ (used /\ ~usedAfterClose /\ closes >= 1)
                 => (session = 0 /\ released = 1 /\ closedSessions = {1})

\* two translate calls that sent requests, then close() twice
C9_Witness ==
    /\ kind = "local_nllb"
    /\ files = 2
    /\ used
    /\ ~usedAfterClose
    /\ closes = 2
    /\ created = 1
    /\ released = 1

\* C10: close() raises no error and leaves no session held; on a backend
\* that never issued a request, and when the call before it was a close()
\* as well, it leaves the state of the backend unchanged.
C10_CloseIdempotent ==
    [][closes' = closes + 1
          => /\ closeRaised' = FALSE
             /\ session' = 0
             /\ (~used \/ lastCall = "close")
                   => UNCHANGED <<session, closedSessions, created, released>>]_vars

\* a backend that held a session, closed twice in a row
C10_Witness ==
    /\ kind \in SessionKinds
    /\ used
    /\ closes = 2
    /\ lastCall = "close"
    /\ released = 1
    /\ session = 0

\* the request that the last response answered
LastAnswered == IF pc = "post" THEN log[Len(log) - 1] ELSE log[Len(log)]

\* the entries that the last response added to translated_texts
Contributed ==
    SubSeq(translated_texts, Len(translated_texts) - LastAnswered.n + 1,
           Len(translated_texts))

\* every request up to request k was answered with one entry per text
AnsweredUpTo(k) ==
    \A j \in 1..k : log[j].status = "ok" /\ log[j].n = Len(log[j].batch)

\* C11: when cancellation is requested while a file with several chunks is
\* being translated, no chunk after the one in flight is sent, the
\* translations of the chunks already completed are kept and the document
\* is returned partially translated, not discarded.
C11_CancelStopsChunks ==
    (cancelAt >= 0 /\ kind \in {"local_nllb", "web_local"} /\ NumChunks > 1)
        => /\ Len(log) <= cancelAt
           /\ pc = "done"
                 => /\ result = "ok"
                    /\ \A s \in 1..Len(texts) :
                          (ChunkOf(s) < cancelAt /\ AnsweredUpTo(ChunkOf(s)))
                              => blocks[s].content = Translate(texts[s])

\* C12: a timeout of one network call fails only the chunk that call
\* carried: the file translation is not reported as failed as a whole, the
\* chunks before it keep their translations and the chunks after it are
\* still attempted.
C12_TimeoutFailsChunkOnly ==
    (kind \in SessionKinds /\ NumChunks > 1 /\ lastReply.kind = "timeout")
        => /\ result # "failed"
           /\ LastAnswered.status = "failed"
           /\ pc = "done"
                 => /\ log[Len(log)].first + Len(log[Len(log)].batch) = Len(texts)
                    /\ \A s \in 1..Len(texts) :
                          (ChunkOf(s) <= Len(log) /\ AnsweredUpTo(ChunkOf(s)))
                              => blocks[s].content = Translate(texts[s])

\* C13: when a backend that needs credentials has none configured,
\* translating a file fails for the whole file and no network request is
\* issued for any chunk of it.
C13_NoCredentialsNoRequest ==
    (kind \in {"gemini", "huggingface"} /\ ~api_key /\ texts # <<>>)
        => /\ log = <<>>
           /\ tasks = <<>>
           /\ pc = "done"
           /\ result = "failed"

\* C14: translating an empty segment list is a success with an empty
\* result: for every backend it returns an empty list, raises no error and
\* issues no backend request.
C14_EmptyBatchSucceeds ==
    (pc = "done" /\ lastCall = "batch")
        => /\ result = "ok"
           /\ translated_texts = <<>>
           /\ log = <<>>
           /\ tasks = <<>>

RECURSIVE DropDigits(_)
DropDigits(l) ==
    IF l # <<>> /\ Head(l) \in DigitTokens THEN DropDigits(Tail(l)) ELSE l

LeadingNumberRemoved(l) ==
    LET r == DropDigits(l) IN
    IF Len(r) < Len(l) /\ Len(r) >= 2 /\ r[1] = DOT /\ r[2] = SP
    THEN SubSeq(r, 3, Len(r))
    ELSE l

\* the non-empty lines of a reply in order, each without its leading
\* "k. " only
RECURSIVE NumberedLines(_)
NumberedLines(ls) ==
    IF ls = <<>> THEN <<>>
    ELSE (IF Strip(Head(ls)) = <<>> THEN <<>>
          ELSE <<LeadingNumberRemoved(Strip(Head(ls)))>>)
         \o NumberedLines(Tail(ls))

\* C16: the reply parser returns exactly N entries for every reply text and
\* every count N: the non-empty lines of the reply in order, each with only
\* a leading "k. " numbering prefix removed, truncated to N when there are
\* more, padded with the last parsed line (or the empty string when no line
\* was parsed) when there are fewer.
C16_ReplyParsed ==
    rpc = "returned"
        => LET ls == NumberedLines(SplitLines(response_text))
               last == IF ls = <<>> THEN <<>> ELSE ls[Len(ls)]
           IN /\ Len(translations) = expected_count
              /\ \A k \in 1..expected_count :
                    translations[k] = IF k <= Len(ls) THEN ls[k] ELSE last

-----------------------------------------------------------------------------
(* Further properties of the backends (Spec) *)

\* C25: _translate_batch of the Gemini backend, whose model calls run
\* concurrently, returns exactly len(texts) entries and entry k is the
\* reply to texts[k] (the empty string when that call failed), whatever
\* order the calls complete in and whichever of them fail.
C25_GeminiAligned ==
    (kind = "gemini" /\ pc = "done" /\ tasks # <<>>)
        => /\ Len(translated_texts) = Len(texts)
           /\ \A k \in 1..Len(texts) :
                 translated_texts[k] =
                    IF tasks[k] = "ok" THEN Translate(texts[k]) ELSE <<>>

\* a batch of two texts whose first call failed and whose second succeeded
C25_Witness ==
    /\ kind = "gemini"
    /\ pc = "done"
    /\ Len(texts) >= 2
    /\ Len(tasks) = Len(texts)
    /\ tasks[1] = "failed"
    /\ tasks[2] = "ok"
    /\ translated_texts[2] = Translate(texts[2])

\* C29: when stop() closes the backend while the worker is between two
\* chunks of a file, no session is left open once the worker has finished:
\* a chunk dispatched after the close does not create a new session that
\* is never released.
C29_StopLeavesNoSession ==
    (kind \in SessionKinds /\ cancelAt >= 0 /\ pc = "done") => session = 0

\* the sessions created and not closed
OpenSessions == (1..created) \ closedSessions

\* the step sent a request
RequestIssued == pc' = "post" /\ log' # log

\* a step keeps at most one session open, and a request it sends uses an
\* open session, a new one when the backend held none
SessionStep ==
    /\ Cardinality(OpenSessions') <= 1
    /\ RequestIssued
          => LET r == log'[Len(log')] IN
             /\ r.session = session'
             /\ r.session \in OpenSessions'
             /\ session = 0 => r.session \notin 1..created

\* C30: a backend instance stays usable after close(): a request made
\* after close() creates a fresh session instead of using the closed one,
\* and at every point of any sequence of requests and close() calls the
\* backend holds at most one open session.
C30_UsableAfterClose == [][(kind \in SessionKinds) => SessionStep]_vars

\* a request sent on a second session after the first one was closed
C30_Witness ==
    /\ kind \in SessionKinds
    /\ pc = "post"
    /\ usedAfterClose
    /\ created = 2
    /\ released = 1
    /\ closedSessions = {1}
    /\ session = 2
    /\ log[Len(log)].session = 2

-----------------------------------------------------------------------------
(* Properties of the calls that share a backend (SpecShared) *)

\* every request of call c was answered with one entry per text
SharedAnswered(c) ==
    \A j \in 1..Len(calls[c].log) :
        calls[c].log[j].status = "ok"
            /\ calls[c].log[j].n = Len(calls[c].log[j].batch)

\* C22: two file translations that share one backend instance and
\* interleave at the network calls are safe: each returns results aligned
\* with its own segment list and holding no entry of the other, and
\* together they create at most one session.
C22_SharedBackendSafe ==
    /\ created <= 1
    /\ \A c \in Callers :
          LET cl == calls[c] IN
          /\ \A j \in 1..Len(cl.log) :
                /\ cl.log[j].session = 1
                /\ cl.log[j].batch = Chunk(cl.texts, (j - 1) * batch_size, batch_size)
          /\ \A k \in 1..Len(cl.translated_texts) :
                \E j \in 1..Len(cl.texts) :
                    cl.translated_texts[k] = Translate(cl.texts[j])
          /\ (cl.pc = "done" /\ SharedAnswered(c))
                => /\ cl.result = "ok"
                   /\ cl.translated_texts = TranslateAll(cl.texts)

\* both calls returned their own translations, each having sent its second
\* request while the other was waiting for a reply
C22_Witness ==
    /\ created = 1
    /\ \A c \in Callers :
          /\ calls[c].pc = "done"
          /\ calls[c].result = "ok"
          /\ Len(calls[c].log) >= 2
          /\ calls[c].log[2].overlap
          /\ SharedAnswered(c)
          /\ calls[c].translated_texts = TranslateAll(calls[c].texts)

-----------------------------------------------------------------------------
(* Properties of the facade (SpecFacade) *)

\* C17: with source language "auto", language detection never raises to
\* the caller: when the guesser fails or returns a code absent from the
\* code map, detection returns the single default code and the translation
\* of the file proceeds with it.
C17_DetectionFallsBack ==
    /\ fcall.state = "raised" => ~fcall.exists
    /\ (fcall.state \in {"backend", "returned"} /\ fcall.source = "auto")
          => /\ fcall.src_lang # "auto"
             /\ (\/ ~fcall.sample.readable
                 \/ fcall.sample.guess = "raise"
                 \/ fcall.sample.guess \notin Mapped)
                   => fcall.src_lang = DefaultLang

\* the guesser answered with a code that the map does not hold and the
\* backend was called with the default code
C17_Witness ==
    /\ fcall.state = "backend"
    /\ fcall.source = "auto"
    /\ fcall.sample.readable
    /\ fcall.sample.nlines >= SampleLines
    /\ fcall.sample.guess = "ja"
    /\ fcall.src_lang = DefaultLang

\* C20: a TranslationConfig is never modified after it has been
\* constructed: no operation of the facade changes a field of the
\* configuration object that the caller still holds.
C20_ConfigNeverModified == config = constructed

\* C21: every backend instance that its owner constructs is released by an
\* explicit close() on every exit path of the owner, also when the backend
\* is replaced by an update of the configuration: no backend instance is
\* dropped while it still holds an open session.
C21_BackendReleased == ~leaked

\* C23: backend and network errors raised while a file is translated never
\* propagate past the facade: translate_file on an existing input file
\* returns a value for every backend exception and raises none to the
\* caller.
C23_ErrorsStayInside ==
    /\ (fcall.state # "idle" /\ fcall.exists) => fcall.state # "raised"
    /\ fcall.state = "returned" => fcall.value \in {"True", "False", "None"}
    /\ (fcall.state = "returned" /\ fcall.outcome \in {"raises", "TypeError"})
          => fcall.value = "None"

\* the backend was called, raised, and translate_file returned None
C23_Witness ==
    /\ fcall.state = "returned"
    /\ fcall.exists
    /\ fcall.output_file
    /\ fcall.outcome = "raises"
    /\ fcall.value = "None"

\* C24: for every backend kind registered in the factory, translate_file on
\* an existing, parsable file whose backend answers every request with
\* aligned results returns the pair (original document, translated
\* document), not a failure value: the facade's call matches the
\* parameters of the backend's translate_file.
C24_FacadeReturnsPair ==
    (fcall.state = "returned" /\ fcall.outcome \notin {"False", "raises"})
        => /\ fcall.outcome # "TypeError"
           /\ fcall.value = "pair"

\* C26: with source language "auto", for a file of any length of at least
\* one line, also fewer than 100 lines, whose guessed code is in the code
\* map, detection returns the mapped code and not the default.
C26_ShortFileDetected ==
    (/\ fcall.state \in {"backend", "returned"}
     /\ fcall.source = "auto"
     /\ fcall.sample.readable
     /\ fcall.sample.nlines >= 1
     /\ fcall.sample.guess \in Mapped)
        => fcall.src_lang = LangMap(fcall.sample.guess)

\* C28: update_config is all-or-nothing: when rebuilding the backend fails
\* with ConfigurationError, the configuration fields and the backend are
\* the ones from before the call, so configuration and backend never
\* disagree.
C28_UpdateAllOrNothing ==
    [][fresult' = "ConfigurationError"
          => /\ config' = config
             /\ engine' = engine
             /\ engine' = EngineOf(config')]_vars

====
